---- MODULE Spec2Model ----
(***************************************************************************)
(* A model of scripts/generate_docs.py: the generator (parse_filename,     *)
(* read_existing_tags_and_memo, write_question_page, write_home, main) and *)
(* the script embedded in the home page (applyFilters, the header click    *)
(* handler, the tag chip handler).                                         *)
(*                                                                         *)
(* A string is a sequence of characters; a character is a one-character    *)
(* TLA+ string.  File contents, file names and attribute values are kept   *)
(* character by character, so that every parser of the program (the file   *)
(* name pattern, the front matter split, the memo pattern, the token       *)
(* split) works on what the writers really wrote.  A character outside     *)
(* ASCII is written as its reading in capitals: "KEI", "HOU" are the two   *)
(* characters of the label of keiho, "ME", "MO" the two of the memo        *)
(* heading, "TEI" n "MON" the question label, "AKIRA", "WA" and "HEI",     *)
(* "SEI" the two eras, "NEN", "DO" the suffix of era_label.                *)
(***************************************************************************)
EXTENDS Integers, Sequences, FiniteSets, TLC

VARIABLES
    dataset,        \* kyushi-ronbun/: the subject directories, in iterdir() order
    docs,           \* docs/: path -> content of every file that exists
    outdirs,        \* docs/: the subject directories that exist
    pc,             \* main: "idle", "dir", "file", "done", "aborted"
    di,             \* main: index of the subject directory being visited
    fi,             \* main: index of the next file of that directory's glob
    all_questions,  \* main: the accumulated question list
    writes,         \* the paths written by the current run, in order
    lastWrite,      \* the last write_question_page call of the run
    run,            \* number of runs started
    prev,           \* docs as the previous completed run left it
    edited,         \* the pages a user edited since the last run ended: path ->
                    \* the tags and the memo the user put there
    edits,          \* number of user edits so far
    rows,           \* home page: the rows of #questions, in document order
    fSubject,       \* home page: value of #filter-subject
    fYear,          \* home page: value of #filter-year
    fQ,             \* home page: value of #filter-q
    fText,          \* home page: value of #filter-text
    sortState,      \* home page: the script's sortState
    order,          \* home page: tbody's children, as indexes into rows
    hidden,         \* home page: row.hidden of every row
    listeners,      \* home page: click listeners on each current tag button
    clicked         \* home page: the tags clicked since the text was last typed

genVars == <<dataset, docs, outdirs, pc, di, fi, all_questions, writes,
             lastWrite, run, prev, edited, edits>>
uiVars == <<rows, fSubject, fYear, fQ, fText, sortState, order, hidden,
            listeners, clicked>>
vars == <<genVars, uiVars>>

-----------------------------------------------------------------------------
(* Characters and the string primitives of Python the program uses.        *)

NL == "\n"
SP == " "
\* Python's str.strip()/rstrip() and the pattern \s: the whitespace of the alphabet.
Whitespace == {SP, NL, "\t"}
Digits == <<"0", "1", "2", "3", "4", "5", "6", "7", "8", "9">>
DigitSet == {Digits[i] : i \in 1..10}
LowerSet == {"a", "b", "c", "d", "e", "f", "g", "h", "i", "j", "k", "l", "m",
             "n", "o", "p", "q", "r", "s", "t", "u", "v", "w", "x", "y", "z"}

At(s, i) == IF i \in 1..Len(s) THEN s[i] ELSE ""
Sub(s, i, j) == IF i > j THEN <<>>
                ELSE SubSeq(s, IF i < 1 THEN 1 ELSE i, IF j > Len(s) THEN Len(s) ELSE j)
From(s, i) == Sub(s, i, Len(s))

\* s.startswith(p)
StartsWith(s, p) == Len(p) <= Len(s) /\ SubSeq(s, 1, Len(p)) = p

\* s.find(p, from): the first index >= from where p occurs, 0 when there is none
Find(s, p, from) ==
    LET hits == {i \in from..(Len(s) - Len(p) + 1) : SubSeq(s, i, i + Len(p) - 1) = p}
    IN IF hits = {} THEN 0 ELSE CHOOSE i \in hits : \A j \in hits : i <= j

\* p in s
Includes(s, p) == Find(s, p, 1) # 0

\* sep.join(parts)
RECURSIVE Join(_, _)
Join(parts, sep) ==
    IF parts = <<>> THEN <<>>
    ELSE IF Len(parts) = 1 THEN parts[1]
    ELSE parts[1] \o sep \o Join(Tail(parts), sep)

\* s.split(sep): always at least one piece
RECURSIVE Split(_, _)
Split(s, sep) ==
    LET i == Find(s, sep, 1)
    IN IF i = 0 THEN <<s>>
       ELSE <<Sub(s, 1, i - 1)>> \o Split(From(s, i + Len(sep)), sep)

\* s.splitlines(): no piece for the end of a final line break
splitlines(s) ==
    LET p == Split(s, <<NL>>)
    IN IF p[Len(p)] = <<>> THEN SubSeq(p, 1, Len(p) - 1) ELSE p

\* s.rstrip(chars)
RECURSIVE RStripSet(_, _)
RStripSet(s, cs) ==
    IF s # <<>> /\ s[Len(s)] \in cs THEN RStripSet(SubSeq(s, 1, Len(s) - 1), cs) ELSE s

RECURSIVE LStripSet(_, _)
LStripSet(s, cs) ==
    IF s # <<>> /\ s[1] \in cs THEN LStripSet(Tail(s), cs) ELSE s

rstrip(s) == RStripSet(s, Whitespace)
strip(s) == LStripSet(rstrip(s), Whitespace)

\* int(digits)
RECURSIVE int(_)
int(ds) ==
    IF ds = <<>> THEN 0
    ELSE int(SubSeq(ds, 1, Len(ds) - 1)) * 10
         + ((CHOOSE i \in 1..10 : Digits[i] = ds[Len(ds)]) - 1)

\* str(n), n >= 0
RECURSIVE str(_)
str(n) == IF n < 10 THEN <<Digits[n + 1]>>
          ELSE str(n \div 10) \o <<Digits[(n % 10) + 1]>>

\* the index of the last character of the longest run of characters of cs
\* that starts at i (i - 1 when s[i] is not in cs)
RunEnd(s, i, cs) ==
    IF i > Len(s) THEN i - 1
    ELSE CHOOSE j \in (i - 1)..Len(s) :
            /\ \A k \in i..j : s[k] \in cs
            /\ (j = Len(s) \/ s[j + 1] \notin cs)

\* str.lower() / toLowerCase() on the letters of the alphabet
LowerChar(c) ==
    CASE c = "A" -> "a" [] c = "B" -> "b" [] c = "T" -> "t" [] c = "X" -> "x"
      [] c = "Y" -> "y" [] OTHER -> c
lower(s) == [i \in 1..Len(s) |-> LowerChar(s[i])]

-----------------------------------------------------------------------------
(* Program constants.                                                      *)

KEIHO == <<"k", "e", "i", "h", "o">>
MINPO == <<"m", "i", "n", "p", "o">>
KENPO == <<"k", "e", "n", "p", "o">>

\* SUBJECT_NAMES.get(code, code)
SUBJECT_NAMES(code) ==
    CASE code = KENPO -> <<"KEN", "HOU">>
      [] code = KEIHO -> <<"KEI", "HOU">>
      [] code = <<"k", "e", "i", "s", "o", "h", "o">> -> <<"KEI", "JI", "SO", "SHOU", "HOU">>
      [] code = <<"m", "i", "n", "s", "o", "h", "o">> -> <<"MIN", "JI", "SO", "SHOU", "HOU">>
      [] code = MINPO -> <<"MIN", "HOU">>
      [] code = <<"s", "h", "o", "h", "o">> -> <<"AKINAI", "HOU">>
      [] OTHER -> code

\* ERA_NAMES.get(c, c)
ERA_NAMES(c) ==
    CASE c = "s" -> <<"AKIRA", "WA">>
      [] c = "h" -> <<"HEI", "SEI">>
      [] OTHER -> <<c>>

SUBJECT_ORDER == << <<"KEN", "HOU">>, <<"MIN", "HOU">>, <<"AKINAI", "HOU">>, <<"KEI", "HOU">>,
                    <<"MIN", "JI", "SO", "SHOU", "HOU">>, <<"KEI", "JI", "SO", "SHOU", "HOU">> >>

DefaultMemo == <<"_", "KO", "KO", "NI", "ME", "MO", "WO", "KAKU", "KU", "_">>
MemoHeading == <<"#", "#", " ", "ME", "MO">>
Dashes == <<"-", "-", "-">>
NENDO == <<"NEN", "DO">>

KYUSHI == <<"k", "y", "u", "s", "h", "i", "_">>
DOT_TXT == <<".", "t", "x", "t">>
DOT_MD == <<".", "m", "d">>
TitleWords == <<SP, "KYUU", "SHI", "HOU", "TAMESU", "GEN", SP, "RON", "BUN", "SHIKI", "TAMESU", "GEN", "MON", "DAI", SP>>
MONDAI == <<"#", "#", SP, "MON", "DAI">>
DataRoot == <<"k", "y", "u", "s", "h", "i", "-", "r", "o", "n", "b", "u", "n", "/">>

-----------------------------------------------------------------------------
(* parse_filename                                                          *)

\* re.match(r"kyushi_(?P<subject>[a-z]+)_(?P<year>\d{4})_(?P<era>[sh]\d{2})
\*            _q(?P<qnum>\d+)\.txt$", path.name): the groups, and whether it
\* matched.  [a-z]+ and \d+ are greedy and the character after each is not
\* of its class, so each takes the whole run.
FilenameMatch(name) ==
    LET a == RunEnd(name, Len(KYUSHI) + 1, LowerSet)
        b == a + 5
        c == RunEnd(name, b + 7, DigitSet)
    IN [ok |-> /\ StartsWith(name, KYUSHI)
               /\ a > Len(KYUSHI)
               /\ At(name, a + 1) = "_"
               /\ \A k \in (a + 2)..(a + 5) : At(name, k) \in DigitSet
               /\ At(name, b + 1) = "_"
               /\ At(name, b + 2) \in {"s", "h"}
               /\ At(name, b + 3) \in DigitSet
               /\ At(name, b + 4) \in DigitSet
               /\ At(name, b + 5) = "_"
               /\ At(name, b + 6) = "q"
               /\ c >= b + 7
               /\ From(name, c + 1) \in {DOT_TXT, DOT_TXT \o <<NL>>},
        subject |-> Sub(name, Len(KYUSHI) + 1, a),
        year |-> Sub(name, a + 2, a + 5),
        era |-> Sub(name, b + 2, b + 4),
        qnum |-> Sub(name, b + 7, c)]

\* f"{year}_{era_code}_q{qnum}.md"
Slug(year, era_code, qnum) ==
    str(year) \o <<"_">> \o era_code \o <<"_", "q">> \o str(qnum) \o DOT_MD

\* The Question parse_filename returns for a name that matches (it raises
\* ValueError for one that does not: FilenameMatch(name).ok is FALSE).
parse_filename(name, filetext) ==
    LET m == FilenameMatch(name)
    IN [subject |-> m.subject,
        subject_label |-> SUBJECT_NAMES(m.subject),
        year |-> int(m.year),
        era_code |-> m.era,
        qnum |-> int(m.qnum),
        text |-> RStripSet(LStripSet(filetext, {NL}), {NL}),
        slug |-> Slug(int(m.year), m.era, int(m.qnum)),
        source |-> DataRoot \o m.subject \o <<"/">> \o name,
        tags |-> <<>>]

\* era_label(code, suffix)
era_label(code, suffix) == ERA_NAMES(code[1]) \o str(int(Tail(code))) \o suffix

-----------------------------------------------------------------------------
(* format_blockquote, read_existing_tags_and_memo, write_question_page     *)

format_blockquote(text) ==
    LET ls == splitlines(text)
        out == [i \in 1..Len(ls) |->
                   IF strip(ls[i]) # <<>> THEN <<">", SP>> \o ls[i] ELSE <<">">>]
    IN rstrip(Join(out, <<NL>>))

\* content.split("---", 2)
SplitDashes2(content) ==
    LET i1 == Find(content, Dashes, 1)
        i2 == IF i1 = 0 THEN 0 ELSE Find(content, Dashes, i1 + 3)
    IN IF i1 = 0 THEN <<content>>
       ELSE IF i2 = 0 THEN <<Sub(content, 1, i1 - 1), From(content, i1 + 3)>>
       ELSE <<Sub(content, 1, i1 - 1), Sub(content, i1 + 3, i2 - 1), From(content, i2 + 3)>>

\* YAML 1.1 as PyYAML's safe_load resolves it, then Python's str(): a
\* double-quoted scalar is its text; a plain scalar is a bool, a null or a
\* string by its spelling.
YamlTrue == {<<"y", "e", "s">>, <<"Y", "e", "s">>, <<"t", "r", "u", "e">>,
             <<"T", "r", "u", "e">>, <<"o", "n">>}
YamlFalse == {<<"n", "o">>, <<"f", "a", "l", "s", "e">>, <<"F", "a", "l", "s", "e">>,
              <<"o", "f", "f">>}
YamlNull == {<<>>, <<"~">>, <<"n", "u", "l", "l">>}

YamlScalarStr(src) ==
    IF Len(src) >= 2 /\ src[1] = "\"" /\ src[Len(src)] = "\""
    THEN Sub(src, 2, Len(src) - 1)
    ELSE IF src \in YamlTrue THEN <<"T", "r", "u", "e">>
    ELSE IF src \in YamlFalse THEN <<"F", "a", "l", "s", "e">>
    ELSE IF src \in YamlNull THEN <<"N", "o", "n", "e">>
    ELSE src

\* yaml.safe_load(parts[1]) for a block mapping of "key: value" lines, and
\* [str(t) for t in meta["tags"]] when meta["tags"] is a list: "tags: []", or
\* "tags:" followed by the "- item" lines of a block sequence.  Anything else
\* under "tags" (or no such key) is not a list: no tags.
YamlTags(fm) ==
    LET ls == Split(fm, <<NL>>)
        key == {i \in 1..Len(ls) : rstrip(ls[i]) = <<"t", "a", "g", "s", ":">>}
        IsItem(l) == StartsWith(LStripSet(l, {SP}), <<"-", SP>>)
                     \/ LStripSet(l, {SP}) = <<"-">>
        k == CHOOSE i \in key : \A j \in key : i <= j
        last == CHOOSE j \in k..Len(ls) :
                    /\ \A i \in (k + 1)..j : IsItem(ls[i])
                    /\ (j = Len(ls) \/ ~IsItem(ls[j + 1]))
    IN IF key = {} THEN <<>>
       ELSE [i \in 1..(last - k) |->
                YamlScalarStr(strip(Tail(LStripSet(ls[k + i], {SP}))))]

\* re.search(r"## <ME><MO>\s*\n(.*)", content, re.S): group 1 of the leftmost
\* match, or no match.  \s* is greedy and must leave a line break for \n, so
\* the group starts after the last line break of the whitespace that follows
\* the heading.
MemoSearch(content) ==
    LET LastNL(p) ==
            LET w == RunEnd(content, p + Len(MemoHeading), Whitespace)
                nls == {k \in (p + Len(MemoHeading))..w : content[k] = NL}
            IN IF nls = {} THEN 0 ELSE CHOOSE k \in nls : \A j \in nls : j <= k
        hits == {p \in 1..(Len(content) - Len(MemoHeading) + 1) :
                    /\ SubSeq(content, p, p + Len(MemoHeading) - 1) = MemoHeading
                    /\ LastNL(p) # 0}
        first == CHOOSE p \in hits : \A r \in hits : p <= r
    IN IF hits = {} THEN [found |-> FALSE, group |-> <<>>]
       ELSE [found |-> TRUE, group |-> From(content, LastNL(first) + 1)]

\* a reader with no placeholder for a page that does not exist yet
read_existing_tags_and_memo_NoPlaceholder(exists, content) ==
    IF ~exists THEN [tags |-> <<>>, memo |-> <<>>]
    ELSE [tags |-> <<>>, memo |-> DefaultMemo]

\* read_existing_tags_and_memo(path): exists is path.exists(), content the
\* file's text
read_existing_tags_and_memo(exists, content) ==
    LET parts == SplitDashes2(content)
        tags == IF StartsWith(content, Dashes) /\ Len(parts) >= 3
                THEN YamlTags(parts[2]) ELSE <<>>
        m == MemoSearch(content)
        memo == IF m.found /\ rstrip(m.group) # <<>> THEN rstrip(m.group)
                ELSE DefaultMemo
    IN IF ~exists THEN [tags |-> <<>>, memo |-> DefaultMemo]
       ELSE [tags |-> tags, memo |-> memo]

\* the title of write_question_page
Title(q) ==
    era_label(q.era_code, NENDO) \o TitleWords \o q.subject_label
        \o <<SP, "TEI">> \o str(q.qnum) \o <<"MON">>

\* the page layout of write_question_page: items are the lines under "tags:"
PageContent(title, items, blockquote, memo) ==
    LET frontmatter ==
            <<Dashes, <<"t", "i", "t", "l", "e", ":", SP>> \o title>>
            \o (IF items # <<>>
                THEN << <<"t", "a", "g", "s", ":">> >>
                     \o [i \in 1..Len(items) |-> <<SP, SP, "-", SP>> \o items[i]]
                ELSE << <<"t", "a", "g", "s", ":", SP, "[", "]">> >>)
            \o <<Dashes>>
    IN Join(frontmatter
            \o << <<>>, <<"#", SP>> \o title, <<>>, MONDAI, <<>>, blockquote, <<>>,
                  MemoHeading, <<>>, memo, <<>> >>,
            <<NL>>)

\* write_question_page(target, q): the text written to target, and q as the
\* call leaves it (q["tags"] = existing_tags)
write_question_page(exists, old, q) ==
    LET r == read_existing_tags_and_memo(exists, old)
    IN [content |-> PageContent(Title(q), r.tags, format_blockquote(q.text), r.memo),
        q |-> [q EXCEPT !.tags = r.tags]]

-----------------------------------------------------------------------------
(* write_home: the rows of the home table and the options of its filters   *)

SnippetLen == 70
INDEX_MD == <<"i", "n", "d", "e", "x", ".", "m", "d">>
TagSep == <<"|", "|", "|">>

\* html.escape(s), quote=True
HtmlEscapeChar(c) ==
    CASE c = "&" -> <<"&", "a", "m", "p", ";">>
      [] c = "<" -> <<"&", "l", "t", ";">>
      [] c = ">" -> <<"&", "g", "t", ";">>
      [] c = "\"" -> <<"&", "q", "u", "o", "t", ";">>
      [] c = "'" -> <<"&", "#", "x", "2", "7", ";">>
      [] OTHER -> <<c>>

RECURSIVE HtmlEscape(_)
HtmlEscape(s) == IF s = <<>> THEN <<>> ELSE HtmlEscapeChar(s[1]) \o HtmlEscape(Tail(s))

\* s.replace(old, new)
Replace(s, old, new) == Join(Split(s, old), new)

\* position of label in SUBJECT_ORDER, len(SUBJECT_ORDER) when it has none
SubjectRank(label) ==
    IF \E i \in 1..Len(SUBJECT_ORDER) : SUBJECT_ORDER[i] = label
    THEN (CHOOSE i \in 1..Len(SUBJECT_ORDER) : SUBJECT_ORDER[i] = label) - 1
    ELSE Len(SUBJECT_ORDER)

\* Python's < on the strings that have no rank: subject codes, [a-z]+
Letters == <<"a", "b", "c", "d", "e", "f", "g", "h", "i", "j", "k", "l", "m",
             "n", "o", "p", "q", "r", "s", "t", "u", "v", "w", "x", "y", "z">>
Ord(c) == IF \E i \in 1..Len(Letters) : Letters[i] = c
          THEN CHOOSE i \in 1..Len(Letters) : Letters[i] = c ELSE 0
RECURSIVE StrLess(_, _)
StrLess(a, b) ==
    IF b = <<>> THEN FALSE
    ELSE IF a = <<>> THEN TRUE
    ELSE IF a[1] # b[1] THEN Ord(a[1]) < Ord(b[1])
    ELSE StrLess(Tail(a), Tail(b))

\* subject_key(a) < subject_key(b): (rank, "") or (len(SUBJECT_ORDER), label)
SubjectKeyLess(a, b) ==
    \/ SubjectRank(a) < SubjectRank(b)
    \/ /\ SubjectRank(a) = SubjectRank(b)
       /\ SubjectRank(a) = Len(SUBJECT_ORDER)
       /\ StrLess(a, b)

\* the sort key of sorted_questions: (subject_key, -year, qnum)
HomeKeyLess(a, b) ==
    \/ SubjectKeyLess(a.subject_label, b.subject_label)
    \/ /\ ~SubjectKeyLess(b.subject_label, a.subject_label)
       /\ \/ a.year > b.year
          \/ a.year = b.year /\ a.qnum < b.qnum

\* sorted(xs, key=...): Python's sort is stable, so an element comes after
\* the smaller ones and after the earlier ones of equal key
\* (lt[i, j]: the key of xs[i] is smaller than the key of xs[j])
SortedBy(xs, lt) ==
    LET rank(i) == 1 + Cardinality({j \in 1..Len(xs) :
                        \/ lt[j, i]
                        \/ ~lt[i, j] /\ j < i})
    IN [k \in 1..Len(xs) |-> xs[CHOOSE i \in 1..Len(xs) : rank(i) = k]]

\* search_text of a row
search_text(q) ==
    lower(Join(<<q.subject_label,
                 era_label(q.era_code, NENDO),
                 <<"TEI">> \o str(q.qnum) \o <<"MON">>,
                 str(q.year),
                 Replace(q.text, <<NL>>, <<SP>>),
                 Join(q.tags, <<SP>>)>>, <<SP>>))

\* snippet_text of a row
snippet_text(q) ==
    LET flat == Replace(q.text, <<NL>>, <<SP>>)
    IN IF Len(flat) > SnippetLen THEN SubSeq(flat, 1, SnippetLen) \o <<"...">> ELSE flat

\* one <tr> of the home table: its attributes as written in the file, the
\* directory and file name of its link, the data-tag of each button
HomeRow(q) ==
    [search |-> HtmlEscape(search_text(q)),
     subject |-> q.subject_label,
     year |-> str(q.year),
     era |-> era_label(q.era_code, NENDO),
     q |-> str(q.qnum),
     link_dir |-> q.subject,
     link_page |-> Replace(q.slug, DOT_MD, <<>>),
     snippet |-> HtmlEscape(snippet_text(q)),
     tags |-> HtmlEscape(Join(q.tags, TagSep)),
     buttons |-> [i \in 1..Len(q.tags) |-> HtmlEscape(q.tags[i])]]

\* the keys of a sequence, each once, in order of first appearance
RECURSIVE Distinct(_)
Distinct(xs) ==
    IF xs = <<>> THEN <<>>
    ELSE LET d == Distinct(SubSeq(xs, 1, Len(xs) - 1))
         IN IF \E i \in 1..Len(d) : d[i] = xs[Len(xs)] THEN d ELSE d \o <<xs[Len(xs)]>>

\* write_home(all_questions): what varies in docs/index.md (the text around
\* it is fixed): the subject options, the year options, the rows
write_home(qs) ==
    LET labels == Distinct([i \in 1..Len(qs) |-> qs[i].subject_label])
        years == Distinct([i \in 1..Len(qs) |-> qs[i].year])
        year_label(y) ==
            era_label(qs[CHOOSE i \in 1..Len(qs) :
                            qs[i].year = y /\ \A j \in 1..(i - 1) : qs[j].year # y].era_code,
                      NENDO)
        YearLess(a, b) == a > b
        ys == SortedBy(years, [i, j \in 1..Len(years) |-> YearLess(years[i], years[j])])
        sorted_questions == SortedBy(qs, [i, j \in 1..Len(qs) |-> HomeKeyLess(qs[i], qs[j])])
    IN [subjects |-> SortedBy(labels, [i, j \in 1..Len(labels) |-> SubjectKeyLess(labels[i], labels[j])]),
        years |-> [i \in 1..Len(ys) |-> [value |-> str(ys[i]), label |-> year_label(ys[i])]],
        rows |-> [i \in 1..Len(sorted_questions) |-> HomeRow(sorted_questions[i])]]

\* write_subject_index(subject_dir, subject_code, questions): the table
\* rows of the subject's index.md, one per year, most recent first, each
\* with its questions' slugs by question number.  main never calls it.
write_subject_index(subject_code, questions) ==
    LET years == Distinct([i \in 1..Len(questions) |-> questions[i].year])
        YearLess(a, b) == a > b
        QLess(a, b) == a.qnum < b.qnum
        ys == SortedBy(years, [i, j \in 1..Len(years) |-> YearLess(years[i], years[j])])
        of(y) == SelectSeq(questions, LAMBDA q : q.year = y)
    IN [label |-> SUBJECT_NAMES(subject_code),
        rows |-> [i \in 1..Len(ys) |->
                    [year |-> ys[i],
                     era |-> era_label(of(ys[i])[1].era_code, NENDO),
                     links |-> LET qy == of(ys[i])
                                   qs == SortedBy(qy, [a, b \in 1..Len(qy) |-> QLess(qy[a], qy[b])])
                               IN [j \in 1..Len(qs) |-> [qnum |-> qs[j].qnum, slug |-> qs[j].slug]]]]]

-----------------------------------------------------------------------------
(* The dataset, and main                                                   *)

MaxFiles == 2       \* source files in the dataset
MaxRuns == 2        \* runs of main
MaxEdits == 1       \* user edits of generated pages

Name1 == KYUSHI \o KEIHO \o <<"_", "1", "9", "8", "5", "_", "s", "6", "0", "_", "q", "1">> \o DOT_TXT
Name2 == KYUSHI \o KEIHO \o <<"_", "1", "9", "8", "5", "_", "s", "6", "0", "_", "q", "0", "1">> \o DOT_TXT
Name3 == KYUSHI \o MINPO \o <<"_", "1", "9", "8", "6", "_", "s", "6", "1", "_", "q", "2">> \o DOT_TXT
NameBad == KYUSHI \o <<"m", "e", "m", "o">> \o DOT_TXT

Text1 == <<"X", SP, "y", NL>>
Text2 == <<"a", NL, NL>> \o MemoHeading \o <<NL>>

\* a file of the dataset: a name and its text
SourceFiles ==
    {[name |-> Name1, text |-> Text1], [name |-> Name1, text |-> Text2],
     [name |-> Name2, text |-> Text1], [name |-> Name3, text |-> Text1],
     [name |-> NameBad, text |-> Text1]}

\* the listings a directory can have: up to n files of distinct names, in
\* any order (glob() and iterdir() promise none)
Listings(n) ==
    {fs \in UNION {[1..k -> SourceFiles] : k \in 0..n} :
        \A i, j \in 1..Len(fs) : i # j => fs[i].name # fs[j].name}

Datasets ==
    {<<[name |-> d[1], files |-> f1], [name |-> d[2], files |-> f2]>> :
        d \in {<<KEIHO, MINPO>>, <<MINPO, KEIHO>>},
        f1 \in Listings(MaxFiles), f2 \in Listings(MaxFiles)}

\* subject_dir.glob("kyushi_*.txt")
glob(files) ==
    SelectSeq(files, LAMBDA f :
        /\ StartsWith(f.name, KYUSHI)
        /\ Len(f.name) >= Len(KYUSHI) + Len(DOT_TXT)
        /\ From(f.name, Len(f.name) - Len(DOT_TXT) + 1) = DOT_TXT)

HomePath == <<<<>>, INDEX_MD>>
NoWrite == [valid |-> FALSE, path |-> <<>>, existed |-> FALSE, tags |-> <<>>]
NoPrev == [valid |-> FALSE, docs |-> <<>>]

\* the user's page: the generated layout with the user's items under
\* "tags:" and the user's memo under the heading
UserPages ==
    {[items |-> << <<"\"", "y", "e", "s", "\"">> >>, memo |-> <<"m">>],
     [items |-> << <<"b", SP, "c">>, <<"T", "r", "u", "e">> >>, memo |-> <<"m", SP, NL, NL, "n">>]}

UiIdle ==
    /\ rows = <<>> /\ fSubject = <<>> /\ fYear = <<>> /\ fQ = <<>> /\ fText = <<>>
    /\ sortState = [key |-> "subject", dir |-> "asc"]
    /\ order = <<>> /\ hidden = <<>> /\ listeners = 0 /\ clicked = {}

GenInit ==
    /\ dataset \in {d \in Datasets : Len(d[1].files) + Len(d[2].files) <= MaxFiles}
    /\ docs = <<>>
    /\ outdirs = {}
    /\ pc = "idle"
    /\ di = 1
    /\ fi = 1
    /\ all_questions = <<>>
    /\ writes = <<>>
    /\ lastWrite = NoWrite
    /\ run = 0
    /\ prev = NoPrev
    /\ edited = <<>>
    /\ edits = 0
    /\ UiIdle

\* main, up to the loop: DOCS_DIR.mkdir, all_questions = []
StartRun ==
    /\ pc \in {"idle", "done", "aborted"}
    /\ run < MaxRuns
    /\ run' = run + 1
    /\ prev' = IF pc = "done" /\ DOMAIN edited = {}
               THEN [valid |-> TRUE, docs |-> docs] ELSE NoPrev
    /\ all_questions' = <<>>
    /\ writes' = <<>>
    /\ lastWrite' = NoWrite
    /\ di' = 1
    /\ fi' = 1
    /\ pc' = "dir"
    /\ UNCHANGED <<dataset, docs, outdirs, edited, edits, uiVars>>

\* the head of the outer loop's body: ensure_empty_subject_dir(output_dir)
EnterDir ==
    /\ pc = "dir"
    /\ di <= Len(dataset)
    /\ outdirs' = outdirs \cup {dataset[di].name}
    /\ fi' = 1
    /\ pc' = "file"
    /\ UNCHANGED <<dataset, docs, di, all_questions, writes, lastWrite, run, prev,
                   edited, edits, uiVars>>

\* one pass of the inner loop: parse_filename, the two appends,
\* write_question_page; parse_filename's ValueError ends the run
ProcessFile ==
    /\ pc = "file"
    /\ fi <= Len(glob(dataset[di].files))
    /\ LET f == glob(dataset[di].files)[fi]
           target == <<dataset[di].name, parse_filename(f.name, f.text).slug>>
           exists == target \in DOMAIN docs
           w == write_question_page(exists, IF exists THEN docs[target] ELSE <<>>,
                                    parse_filename(f.name, f.text))
       IN IF ~FilenameMatch(f.name).ok
          THEN /\ pc' = "aborted"
               /\ UNCHANGED <<docs, fi, all_questions, writes, lastWrite>>
          ELSE /\ all_questions' = Append(all_questions, w.q)
               /\ docs' = (target :> w.content) @@ docs
               /\ writes' = Append(writes, target)
               /\ lastWrite' = [valid |-> TRUE, path |-> target, existed |-> exists,
                                tags |-> w.q.tags]
               /\ fi' = fi + 1
               /\ pc' = "file"
    /\ UNCHANGED <<dataset, outdirs, di, run, prev, edited, edits, uiVars>>

\* the inner loop ends: on to the next subject directory
LeaveDir ==
    /\ pc = "file"
    /\ fi > Len(glob(dataset[di].files))
    /\ di' = di + 1
    /\ pc' = "dir"
    /\ UNCHANGED <<dataset, docs, outdirs, fi, all_questions, writes, lastWrite, run,
                   prev, edited, edits, uiVars>>

\* the outer loop ends: write_home(all_questions), and main returns
WriteHome ==
    /\ pc = "dir"
    /\ di > Len(dataset)
    /\ docs' = (HomePath :> write_home(all_questions)) @@ docs
    /\ writes' = Append(writes, HomePath)
    /\ edited' = <<>>
    /\ pc' = "done"
    /\ UNCHANGED <<dataset, outdirs, di, fi, all_questions, lastWrite, run, prev,
                   edits, uiVars>>

\* between two runs a user edits a generated question page: puts tags in
\* its front matter and text under its memo heading
UserEdit ==
    /\ pc = "done"
    /\ edits < MaxEdits
    /\ \E i \in 1..Len(all_questions), u \in UserPages :
          LET path == writes[i]
              items == u.items
              memo == u.memo
              \* the question whose page is at path: the last one written there
              q == all_questions[CHOOSE j \in 1..Len(all_questions) :
                        writes[j] = path /\ \A k \in (j + 1)..Len(all_questions) : writes[k] # path]
          IN /\ docs' = [docs EXCEPT ![path] =
                            PageContent(Title(q), items, format_blockquote(q.text), memo)]
             /\ edited' = (path :> [tags |-> [n \in 1..Len(items) |-> YamlScalarStr(items[n])],
                                    memo |-> memo]) @@ edited
    /\ edits' = edits + 1
    /\ UNCHANGED <<dataset, outdirs, pc, di, fi, all_questions, writes, lastWrite, run,
                   prev, uiVars>>

GenNext == StartRun \/ EnterDir \/ ProcessFile \/ LeaveDir \/ WriteHome \/ UserEdit

SpecGen == GenInit /\ [][GenNext]_vars

-----------------------------------------------------------------------------
(* Properties of the generator, checked under SpecGen                      *)

Range(f) == {f[i] : i \in DOMAIN f}
Running == pc \in {"dir", "file", "aborted"}

\* C1: two runs in succession with no edit in between: after the second,
\* every output file (question pages and home page) is what the first left.
C1_SecondRunIdentical ==
    (pc = "done" /\ prev.valid /\ DOMAIN edited = {}) => docs = prev.docs

\* C2: when write_question_page regenerates a page that holds a user's tags
\* and memo, the tags and the memo read back from the new page are the
\* user's: the same strings in the same order, the same memo text.
C2_UserEditsPreserved ==
    (Running /\ lastWrite.valid /\ lastWrite.path \in DOMAIN edited)
        => read_existing_tags_and_memo(TRUE, docs[lastWrite.path]) = edited[lastWrite.path]

\* C3: a run that aborts on a file name outside the pattern has written
\* nothing: no question page, no home page.
C3_AbortWritesNothing ==
    pc = "aborted" => writes = <<>>

\* C4: a run that succeeds has written, for every subject directory, the
\* subject's index.md after the subject's question pages, and the home page
\* last of all.
C4_IndexesThenHome ==
    pc = "done" =>
        /\ writes[Len(writes)] = HomePath
        /\ \A d \in 1..Len(dataset) :
              \E i \in 1..Len(writes) :
                 /\ writes[i] = <<dataset[d].name, INDEX_MD>>
                 /\ \A j \in 1..Len(writes) :
                       (writes[j][1] = dataset[d].name /\ j # i) => j < i

\* C7: a page that did not exist when write_question_page was called is
\* written with the line "tags: []" in its front matter and the placeholder
\* memo under its memo heading, and the question's tags are empty.
C7_NewPageDefaults ==
    (Running /\ lastWrite.valid /\ ~lastWrite.existed) =>
        LET c == docs[lastWrite.path]
            tail == <<NL>> \o MemoHeading \o <<NL, NL>> \o DefaultMemo \o <<NL>>
        IN /\ <<"t", "a", "g", "s", ":", SP, "[", "]">> \in Range(Split(SplitDashes2(c)[2], <<NL>>))
           /\ Len(c) >= Len(tail)
           /\ From(c, Len(c) - Len(tail) + 1) = tail
           /\ lastWrite.tags = <<>>

C7_Witness ==
    pc = "file" /\ lastWrite.valid /\ ~lastWrite.existed /\ run = 1

\* C8: in a run that succeeds, the source files of one subject directory go
\* to distinct pages: as many pages written for it as files parsed.
C8_OnePagePerFile ==
    pc = "done" =>
        \A d \in 1..Len(dataset) :
            Cardinality({w \in Range(writes) : w # HomePath /\ w[1] = dataset[d].name})
                = Len(glob(dataset[d].files))

\* C9: after a run that succeeds, the link of every row of the home table
\* is the directory and file name of a page this run wrote.
C9_RowLinksWritten ==
    pc = "done" =>
        \A r \in Range(docs[HomePath].rows) :
            <<r.link_dir, r.link_page \o DOT_MD>> \in Range(writes)

-----------------------------------------------------------------------------
(* The script of the home page                                             *)

MaxRows == 2        \* rows of the home table

\* what the browser makes of an attribute value: the character references
\* html.escape wrote are characters again
RECURSIVE HtmlUnescape(_)
HtmlUnescape(s) ==
    LET refs == {c \in {"&", "<", ">", "\"", "'"} : StartsWith(s, HtmlEscapeChar(c))}
        c == CHOOSE x \in refs : TRUE
    IN IF s = <<>> THEN <<>>
       ELSE IF s[1] = "&" /\ refs # {}
       THEN <<c>> \o HtmlUnescape(From(s, Len(HtmlEscapeChar(c)) + 1))
       ELSE <<s[1]>> \o HtmlUnescape(Tail(s))

\* row.dataset of a <tr> write_home wrote
Dataset(r) ==
    [search |-> HtmlUnescape(r.search), subject |-> r.subject, year |-> r.year,
     era |-> r.era, q |-> r.q, tags |-> HtmlUnescape(r.tags)]

\* s.trim().split(/\s+/).filter(Boolean)
RECURSIVE Tokens(_)
Tokens(s) ==
    LET t == LStripSet(s, Whitespace)
        ws == {i \in 1..Len(t) : t[i] \in Whitespace}
        e == IF ws = {} THEN Len(t) + 1 ELSE CHOOSE i \in ws : \A j \in ws : i <= j
    IN IF t = <<>> THEN <<>>
       ELSE <<Sub(t, 1, e - 1)>> \o Tokens(From(t, e))

\* applyFilters: okSubject
okSubject(row, s) == s = <<>> \/ row.subject = s

\* applyFilters: okYear
okYear(row, y) == y = <<>> \/ Includes(lower(row.year \o <<SP>> \o row.era), y)

\* applyFilters: okQ
okQ(row, q) == q = <<>> \/ Includes(lower(<<"TEI">> \o row.q \o <<"MON">>), q)

\* a text filter that one token satisfies (OR over tokens)
okText_AnyToken(row, tokens) ==
    tokens = <<>> \/ \E i \in 1..Len(tokens) : Includes(lower(row.search), tokens[i])

\* applyFilters: okText
okText(row, tokens) ==
    tokens = <<>> \/ \A i \in 1..Len(tokens) : Includes(lower(row.search), tokens[i])

\* applyFilters: row.hidden of every row, from the four filter values
applyFilters(rs, sv, yv, qv, tv) ==
    LET s == strip(sv)
        y == lower(strip(yv))
        q == lower(strip(qv))
        t == lower(strip(tv))
        tokens == IF t # <<>> THEN Tokens(t) ELSE <<>>
    IN [i \in 1..Len(rs) |->
           ~(okSubject(rs[i], s) /\ okYear(rs[i], y) /\ okQ(rs[i], q) /\ okText(rs[i], tokens))]

\* applyFilters: the tag buttons it puts in a row's tags cell
Buttons(row) == SelectSeq(Split(row.tags, TagSep), LAMBDA t : t # <<>>)

\* compare(a, b, key) for the two sortable headers
compare(a, b, key) ==
    IF key = "year" THEN int(a.year) - int(b.year) ELSE int(a.q) - int(b.q)

\* a header click that always sets the ascending direction
NextDir_AlwaysAsc(state, key) == "asc"

\* the click handler of a header: the direction it sets
NextDir(state, key) ==
    IF state.key = key /\ state.dir = "asc" THEN "desc" ELSE "asc"

\* the click handler of a header: [...rows].sort(...), as indexes into rows;
\* Array.prototype.sort is stable
SortRows(rs, key, dir) ==
    LET base(i, j) == compare(rs[i], rs[j], key)
        Before(i, j) == (IF dir = "asc" THEN base(i, j) ELSE 0 - base(i, j)) < 0
    IN SortedBy([i \in 1..Len(rs) |-> i], [i, j \in 1..Len(rs) |-> Before(i, j)])

\* the click handler of a tag button: the new value of #filter-text
TagClickText(value, tag) ==
    IF tag = <<>> THEN value
    ELSE Join(Distinct(Tokens(value) \o <<tag>>), <<SP>>)

\* the values the filters can take: a select has the value of one of
\* its options, the text input whatever is typed
SubjectOptions == {<<>>} \cup {rows[i].subject : i \in 1..Len(rows)}
YearOptions == {<<>>} \cup {rows[i].year : i \in 1..Len(rows)}
QOptions == {<<>>, <<"1">>, <<"2">>, <<"3">>, <<"4">>}
TypedTexts == {<<>>, <<"X">>, <<SP, "y", SP, SP, "a">>}

\* the questions behind the rows: source files and the tags their pages hold
UiNames == {Name1, Name2, Name3}
UiTags == {<<>>, << <<"b", SP, "c">>, <<"a">> >>}
UiQuestions ==
    {[parse_filename(n, IF n = Name3 THEN Text2 ELSE Text1) EXCEPT !.tags = tg] :
        n \in UiNames, tg \in UiTags}
UiQuestionLists ==
    {qs \in UNION {[1..k -> UiQuestions] : k \in 1..MaxRows} :
        \A i, j \in 1..Len(qs) : i # j => qs[i].source # qs[j].source}

GenIdle ==
    /\ dataset = <<>> /\ docs = <<>> /\ outdirs = {} /\ pc = "idle" /\ di = 1 /\ fi = 1
    /\ all_questions = <<>> /\ writes = <<>> /\ lastWrite = NoWrite /\ run = 0
    /\ prev = NoPrev /\ edited = <<>> /\ edits = 0

\* the page as loaded with no query string: initFilters has run (twice)
UiInit ==
    /\ GenIdle
    /\ \E qs \in UiQuestionLists :
          rows = [i \in 1..Len(qs) |-> Dataset(write_home(qs).rows[i])]
    /\ fSubject = <<>> /\ fYear = <<>> /\ fQ = <<>> /\ fText = <<>>
    /\ sortState = [key |-> "subject", dir |-> "asc"]
    /\ order = [i \in 1..Len(rows) |-> i]
    /\ hidden = applyFilters(rows, <<>>, <<>>, <<>>, <<>>)
    /\ listeners = 2
    /\ clicked = {}

\* an input event on #filter-subject
InputSubject ==
    /\ \E v \in SubjectOptions :
          /\ fSubject' = v
          /\ hidden' = applyFilters(rows, v, fYear, fQ, fText)
    /\ listeners' = 1
    /\ UNCHANGED <<genVars, rows, fYear, fQ, fText, sortState, order, clicked>>

\* an input event on #filter-year
InputYear ==
    /\ \E v \in YearOptions :
          /\ fYear' = v
          /\ hidden' = applyFilters(rows, fSubject, v, fQ, fText)
    /\ listeners' = 1
    /\ UNCHANGED <<genVars, rows, fSubject, fQ, fText, sortState, order, clicked>>

\* an input event on #filter-q
InputQ ==
    /\ \E v \in QOptions :
          /\ fQ' = v
          /\ hidden' = applyFilters(rows, fSubject, fYear, v, fText)
    /\ listeners' = 1
    /\ UNCHANGED <<genVars, rows, fSubject, fYear, fText, sortState, order, clicked>>

\* an input event on #filter-text
InputText ==
    /\ \E v \in TypedTexts :
          /\ fText' = v
          /\ hidden' = applyFilters(rows, fSubject, fYear, fQ, v)
    /\ listeners' = 1
    /\ clicked' = {}
    /\ UNCHANGED <<genVars, rows, fSubject, fYear, fQ, sortState, order>>

\* a click on a sortable header
ClickHeader(key) ==
    /\ sortState' = [key |-> key, dir |-> NextDir(sortState, key)]
    /\ order' = SortRows(rows, key, NextDir(sortState, key))
    /\ hidden' = applyFilters(rows, fSubject, fYear, fQ, fText)
    /\ listeners' = 1
    /\ UNCHANGED <<genVars, rows, fSubject, fYear, fQ, fText, clicked>>

\* a click on a tag button of a visible row: every listener on it runs
ClickTag ==
    /\ \E i \in 1..Len(rows) :
          /\ ~hidden[i]
          /\ \E b \in 1..Len(Buttons(rows[i])) :
                LET tag == Buttons(rows[i])[b]
                    once == TagClickText(fText, tag)
                    value == IF listeners = 2 THEN TagClickText(once, tag) ELSE once
                IN /\ fText' = value
                   /\ hidden' = applyFilters(rows, fSubject, fYear, fQ, value)
                   /\ clicked' = clicked \cup {tag}
    /\ listeners' = 1
    /\ UNCHANGED <<genVars, rows, fSubject, fYear, fQ, sortState, order>>

\* a click on #clear-filters
ClearFilters ==
    /\ fSubject' = <<>> /\ fYear' = <<>> /\ fQ' = <<>> /\ fText' = <<>>
    /\ hidden' = applyFilters(rows, <<>>, <<>>, <<>>, <<>>)
    /\ listeners' = 1
    /\ clicked' = {}
    /\ UNCHANGED <<genVars, rows, sortState, order>>

UiNext ==
    \/ InputSubject \/ InputYear \/ InputQ \/ InputText
    \/ ClickHeader("year") \/ ClickHeader("q")
    \/ ClickTag \/ ClearFilters

SpecUi == UiInit /\ [][UiNext]_vars

-----------------------------------------------------------------------------
(* Properties of the home page's script, checked under SpecUi              *)

SortKeys == {"year", "q"}
KeyOf(row, key) == IF key = "year" THEN int(row.year) ELSE int(row.q)

\* tbody holds every row once, ordered by key in direction dir
OrderedBy(key, dir) ==
    /\ Len(order) = Len(rows)
    /\ Range(order) = 1..Len(rows)
    /\ \A a, b \in 1..Len(order) :
          a < b => IF dir = "asc"
                   THEN KeyOf(rows[order[a]], key) <= KeyOf(rows[order[b]], key)
                   ELSE KeyOf(rows[order[a]], key) >= KeyOf(rows[order[b]], key)

\* what a click on header k would set from the present state: the other
\* direction when the last click was on k, ascending otherwise, and the
\* rows in that order
ClickSets(k) ==
    LET d == NextDir(sortState, k)
        o == SortRows(rows, k, d)
    IN /\ d \in {"asc", "desc"}
       /\ IF sortState.key = k THEN d # sortState.dir ELSE d = "asc"
       /\ Len(o) = Len(rows)
       /\ \A a, b \in 1..Len(o) :
             a < b => IF d = "asc"
                      THEN KeyOf(rows[o[a]], k) <= KeyOf(rows[o[b]], k)
                      ELSE KeyOf(rows[o[a]], k) >= KeyOf(rows[o[b]], k)

\* C5: a click on a sortable header sets the direction to ascending when
\* the previous click was on another header (or there was none), and to the
\* other direction when it was on the same header; after a click the rows
\* are ordered by the clicked column in the direction set.
C5_SortToggle ==
    /\ [](sortState.key \in SortKeys => OrderedBy(sortState.key, sortState.dir))
    /\ [](\A k \in SortKeys : ClickSets(k))
    /\ [][\A k \in SortKeys :
            ClickHeader(k) =>
                /\ sortState'.key = k
                /\ sortState'.dir \in {"asc", "desc"}
                /\ IF sortState.key = k
                   THEN sortState'.dir # sortState.dir
                   ELSE sortState'.dir = "asc"]_vars

C5_Witness ==
    /\ sortState = [key |-> "year", dir |-> "desc"]
    /\ \E a, b \in 1..Len(order) :
          a < b /\ KeyOf(rows[order[a]], "year") > KeyOf(rows[order[b]], "year")

\* p occurs in s
IsSubstring(p, s) ==
    \E i \in 0..(Len(s) - Len(p)) : \A k \in 1..Len(p) : s[i + k] = p[k]

\* the whitespace-separated tokens of s: its longest runs of other characters
TokenSet(s) ==
    {SubSeq(s, i, j) : <<i, j>> \in
        {ij \in (1..Len(s)) \X (1..Len(s)) :
            /\ ij[1] <= ij[2]
            /\ \A k \in ij[1]..ij[2] : s[k] \notin Whitespace
            /\ (ij[1] = 1 \/ s[ij[1] - 1] \in Whitespace)
            /\ (ij[2] = Len(s) \/ s[ij[2] + 1] \in Whitespace)}}

\* C6: a row is visible exactly when the subject filter is empty or is the
\* row's subject, the year filter is empty or occurs in the row's year and
\* era text, the question filter is empty or occurs in the row's question
\* label, and every token of the text filter occurs in the row's search
\* key, letter case aside.
C6_FilterSemantics ==
    \A i \in 1..Len(rows) :
        ~hidden[i] <=>
            /\ (fSubject = <<>> \/ fSubject = rows[i].subject)
            /\ (fYear = <<>> \/ IsSubstring(fYear, rows[i].year \o <<SP>> \o rows[i].era))
            /\ (fQ = <<>> \/ IsSubstring(fQ, <<"TEI">> \o rows[i].q \o <<"MON">>))
            /\ \A tok \in TokenSet(fText) :
                  IsSubstring(lower(tok), lower(rows[i].search))

C6_Witness ==
    /\ Cardinality(TokenSet(fText)) = 2
    /\ \E i, j \in 1..Len(rows) : ~hidden[i] /\ hidden[j]

\* the number of places where the tokens of tag occur, in a row, among the
\* tokens of text
Occurrences(tag, text) ==
    LET tt == Tokens(tag)
        xs == Tokens(text)
    IN Cardinality({i \in 1..(Len(xs) - Len(tt) + 1) : SubSeq(xs, i, i + Len(tt) - 1) = tt})

\* C10: after any sequence of clicks on tag chips, each clicked tag occurs
\* exactly once in the text filter.
C10_ClickedTagOnce ==
    \A tag \in clicked : Occurrences(tag, fText) = 1

====
